---- MODULE Spec2Model ----
(***************************************************************************)
(* A model of three pieces of the bbgo repository:                         *)
(*   - the sync command (pkg/cmd/sync.go): SyncCmd.RunE, the pure helper   *)
(*     findPossibleSymbols and syncSessionSymbol;                          *)
(*   - the FTX Stream (Connect, SetPublicOnly, Subscribe, Close) on top of *)
(*     its WebsocketService.                                               *)
(* Three specifications share the module: Spec (one run of the sync        *)
(* command), DiscoverSpec (findPossibleSymbols on arbitrary snapshots) and *)
(* StreamSpec (the calls made on one Stream).                              *)
(***************************************************************************)
EXTENDS Integers, Sequences, FiniteSets, TLC

VARIABLES
    \* ---- sync command: inputs of the run
    sessions,     \* environ.Sessions(), in the order the environment yields them
    flags,        \* the --session, --symbol and --since flags
    now,          \* time.Now() at the invocation
    \* ---- sync command: state of RunE
    pc,           \* position in RunE / syncSessionSymbol
    startTime,    \* the local startTime
    symbols,      \* the local symbols slice
    cur,          \* index in sessions of the session being processed
    j,            \* index of the range loop over symbols
    requested,    \* syncSessionSymbol: the symbol argument as passed
    symArg,       \* syncSessionSymbol: the local symbol after the override
    via,          \* which call site entered syncSessionSymbol
    calls,        \* every Init / SyncTrades / SyncOrders call, in order
    result,       \* what RunE returned ("running" until it returns)
    \* ---- findPossibleSymbols on its own
    dBalances, dMarkets, dOut, dpc,
    \* ---- Stream
    publicOnly,     \* Stream.publicOnly (int32, accessed atomically)
    subscriptions,  \* wsService: the queue of requests
    nsent,          \* wsService: how many queued requests went over the transport
    transport,      \* wsService: state of the transport
    cpc,            \* position of the caller inside Connect
    loaded,         \* Connect: the value atomic.LoadInt32 returned
    connErr,        \* what the last Connect returned
    hist            \* history of the calls made on the Stream

syncVars == <<sessions, flags, now, pc, startTime, symbols, cur, j, requested,
              symArg, via, calls, result>>
discVars == <<dBalances, dMarkets, dOut, dpc>>
streamVars == <<publicOnly, subscriptions, nsent, transport, cpc, loaded,
                connErr, hist>>
vars == <<syncVars, discVars, streamVars>>

----------------------------------------------------------------------------
(* Bounds of the model. *)
MaxSessions == 2
MaxMarkets == 2
MaxConnects == 2
MaxSubscribes == 2
MaxCloses == 2

----------------------------------------------------------------------------
(* Data shared by the sync command and findPossibleSymbols. *)

\* A balance: Total() is Available + Locked.
Bal(a, l) == [Available |-> a, Locked |-> l]

Total(b) == b.Available + b.Locked

Market(sym, base, quote) ==
    [Symbol |-> sym, BaseCurrency |-> base, QuoteCurrency |-> quote]

NoBalances == [c \in {} |-> Bal(0, 0)]

fiatCurrencies == <<"USDC", "USDT", "USD", "TWD", "EUR", "GBP">>

stringSliceContains(slice, needle) ==
    \E i \in 1..Len(slice) : slice[i] = needle

\* The first loop of findPossibleSymbols: the fiat currencies held.
fiatAssets(balances) ==
    SelectSeq(fiatCurrencies,
              LAMBDA c : c \in DOMAIN balances /\ Total(balances[c]) > 0)

\* The test of the second loop that lets a market through.
MarketKept(balances, market) ==
    /\ stringSliceContains(fiatAssets(balances), market.QuoteCurrency)
    /\ market.BaseCurrency \in DOMAIN balances
    /\ Total(balances[market.BaseCurrency]) # 0

\* The second loop: the keys of symbolMap.
symbolMap(balances, markets) ==
    {markets[i].Symbol :
        i \in {k \in 1..Len(markets) : MarketKept(balances, markets[k])}}

\* Every sequence that lists the set S once each: ranging over a Go map
\* yields its keys in an unspecified order.
Orderings(S) ==
    {s \in [1..Cardinality(S) -> S] : \A x \in S : \E i \in DOMAIN s : s[i] = x}

\* The slices findPossibleSymbols may return after a successful Init.
findPossibleSymbols(balances, markets) ==
    Orderings(symbolMap(balances, markets))

----------------------------------------------------------------------------
(* The sync command: inputs. *)

Session(name, isolated, isolatedSymbol, balances, markets) ==
    [Name |-> name, Exchange |-> <<"exchange", name>>,
     IsolatedMargin |-> isolated, IsolatedMarginSymbol |-> isolatedSymbol,
     balances |-> balances, markets |-> markets]

\* The markets every modelled exchange lists.
ExchangeMarkets ==
    << Market("BTCUSDT", "BTC", "USDT"),
       Market("ETHUSDT", "ETH", "USDT"),
       Market("ETHBTC", "ETH", "BTC") >>

HoldsBTC == ("USDT" :> Bal(5, 0)) @@ ("BTC" :> Bal(1, 0))
HoldsBTCETH ==
    ("USDT" :> Bal(5, 1)) @@ ("BTC" :> Bal(1, 0)) @@ ("ETH" :> Bal(0, 2))

\* The sessions a configuration may declare.
SessionPool ==
    { Session("max", FALSE, "", HoldsBTCETH, ExchangeMarkets),
      Session("binance", FALSE, "", HoldsBTC, ExchangeMarkets),
      Session("ftx", FALSE, "", NoBalances, ExchangeMarkets),
      Session("margin", TRUE, "ETHBTC", HoldsBTC, ExchangeMarkets),
      Session("iso", TRUE, "ETHBTC", NoBalances, ExchangeMarkets) }

\* environ.Sessions(): up to MaxSessions distinct sessions, in any order.
Environments ==
    UNION { {s \in [1..n -> SessionPool] :
                \A a, b \in 1..n : a # b => s[a].Name # s[b].Name} :
            n \in 0..MaxSessions }

SessionFlags == {""} \cup {s.Name : s \in SessionPool}
SymbolFlags == {"", "BTCUSDT", "ETHBTC"}
SinceFlags == {"", "2022-01-01", "2022-13-01"}
NowValues ==
    { [year |-> 2022, month |-> 2, day |-> 15],
      [year |-> 2021, month |-> 11, day |-> 30] }

\* The zero time.Time.
NoTime == [year |-> 0, month |-> 0, day |-> 0, zone |-> ""]

\* The errors a collaborator (Session.Init, the sync engine) may return.
Errors == {"err-a", "err-b"}

\* Variant of AddMonths that does not carry into the year.
AddMonthsNoCarry(t, months) ==
    [year |-> t.year, month |-> t.month + months, day |-> t.day,
     zone |-> "Local"]

\* time.Time.AddDate(0, months, 0) for a day that exists in every month.
AddMonths(t, months) ==
    LET m0 == (t.year * 12 + (t.month - 1)) + months
    IN  [year |-> m0 \div 12, month |-> (m0 % 12) + 1, day |-> t.day,
         zone |-> "Local"]

\* time.ParseInLocation("2006-01-02", since, Asia/Taipei) on the modelled flags.
ParseInLocation(since) ==
    CASE since = "2022-01-01" ->
            [ok |-> TRUE,
             time |-> [year |-> 2022, month |-> 1, day |-> 1,
                       zone |-> "Asia/Taipei"]]
      [] OTHER -> [ok |-> FALSE, err |-> "parse-error"]

\* Variant of SessionIndex that falls back to the first session.
SessionIndexOrFirst(name) ==
    IF \E i \in 1..Len(sessions) : sessions[i].Name = name
    THEN CHOOSE i \in 1..Len(sessions) : sessions[i].Name = name
    ELSE IF Len(sessions) > 0 THEN 1 ELSE 0

\* environ.Session(name): the index of the session of that name, 0 when absent.
SessionIndex(name) ==
    IF \E i \in 1..Len(sessions) : sessions[i].Name = name
    THEN CHOOSE i \in 1..Len(sessions) : sessions[i].Name = name
    ELSE 0

\* len(sessionName) > 0
NamedMode == flags.session # ""

InitSync ==
    /\ sessions \in Environments
    /\ flags \in [session : SessionFlags, symbol : SymbolFlags, since : SinceFlags]
    /\ now \in NowValues
    /\ pc = "start"
    /\ startTime = NoTime
    /\ symbols = << >>
    /\ cur = 0
    /\ j = 0
    /\ requested = ""
    /\ symArg = ""
    /\ via = ""
    /\ calls = << >>
    /\ result = "running"

\* The sync command is not running.
IdleSync ==
    /\ sessions = << >>
    /\ flags = [session |-> "", symbol |-> "", since |-> ""]
    /\ now = NoTime
    /\ pc = "idle"
    /\ startTime = NoTime
    /\ symbols = << >>
    /\ cur = 0
    /\ j = 0
    /\ requested = ""
    /\ symArg = ""
    /\ via = ""
    /\ calls = << >>
    /\ result = "running"

----------------------------------------------------------------------------
(* The sync command: RunE, findPossibleSymbols, syncSessionSymbol. *)

Call(op, session, symbol) ==
    [op |-> op, session |-> session.Name, exchange |-> session.Exchange,
     symbol |-> symbol, startTime |-> startTime, requested |-> requested,
     via |-> via, ret |-> "pending"]

\* The call in flight returns r.
Returned(r) == [calls EXCEPT ![Len(calls)].ret = r]

\* RunE returns r.
Return(r) == result' = r /\ pc' = "done"

\* Variant of EffectiveSymbol without the isolated-margin override.
IgnoreIsolatedMargin(session, symbol) == symbol

\* The symbol syncSessionSymbol passes to the engine: the isolated-margin
\* symbol of an isolated-margin session, the symbol argument otherwise.
EffectiveSymbol(session, symbol) ==
    IF session.IsolatedMargin THEN session.IsolatedMarginSymbol ELSE symbol

\* Entry of syncSessionSymbol(ctx, environ, sessions[cur], symbol, startTime).
EnterSyncSessionSymbol(symbol, site) ==
    /\ requested' = symbol
    /\ symArg' = EffectiveSymbol(sessions[cur], symbol)
    /\ via' = site
    /\ pc' = "syncTrades"

\* Variant of ExplicitSymbols that drops the --symbol flag.
NoExplicitSymbols(symbol) == << >>

\* The symbols slice RunE builds from the --symbol flag.
ExplicitSymbols(symbol) == IF symbol # "" THEN <<symbol>> ELSE << >>

\* RunE up to the first session: the start time, the symbols, the session.
RunE ==
    /\ pc = "start"
    /\ LET parsed == ParseInLocation(flags.since)
           idx == SessionIndex(flags.session)
       IN  IF flags.since # "" /\ ~parsed.ok
           THEN /\ Return(parsed.err)
                /\ UNCHANGED <<startTime, symbols, cur>>
           ELSE /\ startTime' = IF flags.since # "" THEN parsed.time
                                ELSE AddMonths(now, -3)
                /\ symbols' = ExplicitSymbols(flags.symbol)
                /\ IF NamedMode
                   THEN IF idx = 0
                        THEN Return("session not found") /\ cur' = cur
                        ELSE cur' = idx /\ pc' = "session" /\ result' = result
                   ELSE IF Len(sessions) = 0
                        THEN Return("nil") /\ cur' = cur
                        ELSE cur' = 1 /\ pc' = "session" /\ result' = result
    /\ UNCHANGED <<sessions, flags, now, j, requested, symArg, via, calls>>
    /\ UNCHANGED <<discVars, streamVars>>

\* len(symbols) == 0: findPossibleSymbols is entered and calls session.Init.
FindPossibleSymbolsInit ==
    /\ pc = "session"
    /\ Len(symbols) = 0
    /\ calls' = Append(calls, Call("Init", sessions[cur], ""))
    /\ pc' = "init"
    /\ UNCHANGED <<sessions, flags, now, startTime, symbols, cur, j, requested,
                   symArg, via, result>>
    /\ UNCHANGED <<discVars, streamVars>>

\* session.Init returns; without an error the rest of findPossibleSymbols
\* runs and RunE stores the slice in symbols.
FindPossibleSymbolsReturn ==
    /\ pc = "init"
    /\ \/ \E e \in Errors :
            /\ calls' = Returned(e)
            /\ Return(e)
            /\ UNCHANGED <<symbols, j>>
       \/ \E found \in findPossibleSymbols(sessions[cur].balances,
                                           sessions[cur].markets) :
            /\ calls' = Returned("nil")
            /\ symbols' = found
            /\ j' = 1
            /\ pc' = "loop"
            /\ result' = result
    /\ UNCHANGED <<sessions, flags, now, startTime, cur, requested, symArg, via>>
    /\ UNCHANGED <<discVars, streamVars>>

\* len(symbols) > 0: the slice is used as it is.
KeepSymbols ==
    /\ pc = "session"
    /\ Len(symbols) > 0
    /\ j' = 1
    /\ pc' = "loop"
    /\ UNCHANGED <<sessions, flags, now, startTime, symbols, cur, requested,
                   symArg, via, calls, result>>
    /\ UNCHANGED <<discVars, streamVars>>

\* for _, s := range symbols, and what follows the loop.
ForSymbols ==
    /\ pc = "loop"
    /\ IF j <= Len(symbols)
       THEN EnterSyncSessionSymbol(symbols[j], "loop") /\ result' = result
       ELSE IF NamedMode
            THEN Return("nil") /\ UNCHANGED <<requested, symArg, via>>
            ELSE EnterSyncSessionSymbol(flags.symbol, "trailing")
                 /\ result' = result
    /\ UNCHANGED <<sessions, flags, now, startTime, symbols, cur, j, calls>>
    /\ UNCHANGED <<discVars, streamVars>>

\* environ.TradeSync.SyncTrades(ctx, session.Exchange, symbol, startTime)
SyncTradesCall ==
    /\ pc = "syncTrades"
    /\ calls' = Append(calls, Call("SyncTrades", sessions[cur], symArg))
    /\ pc' = "tradesReturn"
    /\ UNCHANGED <<sessions, flags, now, startTime, symbols, cur, j, requested,
                   symArg, via, result>>
    /\ UNCHANGED <<discVars, streamVars>>

\* Variant of SyncTradesReturn that goes on to SyncOrders after an error.
SyncTradesReturnSwallowed ==
    /\ pc = "tradesReturn"
    /\ \E r \in Errors \cup {"nil"} : calls' = Returned(r)
    /\ pc' = "syncOrders"
    /\ UNCHANGED <<sessions, flags, now, startTime, symbols, cur, j, requested,
                   symArg, via, result>>
    /\ UNCHANGED <<discVars, streamVars>>

\* SyncTrades returns: an error ends the run.
SyncTradesReturn ==
    /\ pc = "tradesReturn"
    /\ \/ \E e \in Errors : calls' = Returned(e) /\ Return(e)
       \/ calls' = Returned("nil") /\ pc' = "syncOrders" /\ result' = result
    /\ UNCHANGED <<sessions, flags, now, startTime, symbols, cur, j, requested,
                   symArg, via>>
    /\ UNCHANGED <<discVars, streamVars>>

\* Variant of SyncOrdersCall that passes the symbol as it was requested.
SyncOrdersCallRequested ==
    /\ pc = "syncOrders"
    /\ calls' = Append(calls, Call("SyncOrders", sessions[cur], requested))
    /\ pc' = "ordersReturn"
    /\ UNCHANGED <<sessions, flags, now, startTime, symbols, cur, j, requested,
                   symArg, via, result>>
    /\ UNCHANGED <<discVars, streamVars>>

\* Variant of SyncOrdersCall that does not wait for SyncTrades to return.
SyncOrdersCallEarly ==
    /\ pc = "tradesReturn"
    /\ calls' = Append(calls, Call("SyncOrders", sessions[cur], symArg))
    /\ pc' = "ordersReturn"
    /\ UNCHANGED <<sessions, flags, now, startTime, symbols, cur, j, requested,
                   symArg, via, result>>
    /\ UNCHANGED <<discVars, streamVars>>

\* environ.TradeSync.SyncOrders(ctx, session.Exchange, symbol, startTime)
SyncOrdersCall ==
    /\ pc = "syncOrders"
    /\ calls' = Append(calls, Call("SyncOrders", sessions[cur], symArg))
    /\ pc' = "ordersReturn"
    /\ UNCHANGED <<sessions, flags, now, startTime, symbols, cur, j, requested,
                   symArg, via, result>>
    /\ UNCHANGED <<discVars, streamVars>>

\* SyncOrders returns; syncSessionSymbol returns to its call site.
SyncOrdersReturn ==
    /\ pc = "ordersReturn"
    /\ \/ \E e \in Errors :
            calls' = Returned(e) /\ Return(e) /\ UNCHANGED <<cur, j>>
       \/ /\ calls' = Returned("nil")
          /\ IF via = "loop"
             THEN j' = j + 1 /\ pc' = "loop" /\ UNCHANGED <<cur, result>>
             ELSE IF cur < Len(sessions)
                  THEN cur' = cur + 1 /\ pc' = "session"
                       /\ UNCHANGED <<j, result>>
                  ELSE Return("nil") /\ UNCHANGED <<cur, j>>
    /\ UNCHANGED <<sessions, flags, now, startTime, symbols, requested, symArg,
                   via>>
    /\ UNCHANGED <<discVars, streamVars>>

NextSync ==
    \/ RunE
    \/ FindPossibleSymbolsInit
    \/ FindPossibleSymbolsReturn
    \/ KeepSymbols
    \/ ForSymbols
    \/ SyncTradesCall
    \/ SyncTradesReturn
    \/ SyncOrdersCall
    \/ SyncOrdersReturn

----------------------------------------------------------------------------
(* findPossibleSymbols on its own, after a successful Init. *)

DiscoverCurrencies == {"USDT", "TWD", "BTC", "JPY"}

\* Totals 0, 1, 0 and -1.
BalanceValues == {Bal(0, 0), Bal(1, 0), Bal(-1, 1), Bal(-1, 0)}

BalanceSheets ==
    UNION {[held -> BalanceValues] : held \in SUBSET DiscoverCurrencies}

DiscoverMarkets ==
    { Market("BTCUSDT", "BTC", "USDT"),
      Market("BTCTWD", "BTC", "TWD"),
      Market("USDTTWD", "USDT", "TWD"),
      Market("BTCJPY", "BTC", "JPY"),
      Market("JPYUSDT", "JPY", "USDT") }

MarketLists == UNION {[1..n -> DiscoverMarkets] : n \in 0..MaxMarkets}

InitDiscover ==
    /\ dBalances \in BalanceSheets
    /\ dMarkets \in MarketLists
    /\ dOut = << >>
    /\ dpc = "ready"

IdleDiscover ==
    /\ dBalances = NoBalances
    /\ dMarkets = << >>
    /\ dOut = << >>
    /\ dpc = "idle"

\* symbols, err = findPossibleSymbols(...) with Init returning nil.
Discover ==
    /\ dpc = "ready"
    /\ dOut' \in findPossibleSymbols(dBalances, dMarkets)
    /\ dpc' = "done"
    /\ UNCHANGED <<dBalances, dMarkets>>
    /\ UNCHANGED <<syncVars, streamVars>>

NextDiscover == Discover

----------------------------------------------------------------------------
(* The Stream and its WebsocketService. *)

\* A symbol string is modelled as the sequence of its characters.
ToUpperChar(c) ==
    CASE c = "b" -> "B" [] c = "c" -> "C" [] c = "d" -> "D"
      [] c = "l" -> "L" [] c = "s" -> "S" [] c = "t" -> "T"
      [] c = "u" -> "U" [] OTHER -> c

ToUpper(s) == [i \in 1..Len(s) |-> ToUpperChar(s[i])]

IsSpace(c) == c \in {" ", "\t", "\n"}

TrimSpace(s) ==
    LET kept == {i \in 1..Len(s) : ~IsSpace(s[i])}
    IN  IF kept = {} THEN << >>
        ELSE LET lo == CHOOSE i \in kept : \A k \in kept : i <= k
                 hi == CHOOSE i \in kept : \A k \in kept : i >= k
             IN  SubSeq(s, lo, hi)

TrimUpperString(s) == ToUpper(TrimSpace(s))

BookChannel == "book"
Channels == {BookChannel, "trade"}

SubscribeSymbols ==
    { <<"l", "t", "c", "-", "u", "s", "d", "t">>,
      <<" ", "B", "t", "c", "-", "U", "S", "D", " ">> }

LoginRequest == [Operation |-> "login", Channel |-> "", Market |-> << >>]

\* Variant of SubscribeRequest that passes the symbol through unchanged.
SubscribeRequestRaw(symbol) ==
    [Operation |-> "subscribe", Channel |-> "orderbook", Market |-> symbol]

\* The websocketRequest Stream.Subscribe builds.
SubscribeRequest(symbol) ==
    [Operation |-> "subscribe", Channel |-> "orderbook",
     Market |-> TrimUpperString(symbol)]

NoCall == [op |-> "", channel |-> "", symbol |-> << >>, ret |-> "nil"]

\* NewStream: nothing queued, no transport, not public-only.
InitStream ==
    /\ publicOnly = 0
    /\ subscriptions = << >>
    /\ nsent = 0
    /\ transport = "none"
    /\ cpc = "idle"
    /\ loaded = 0
    /\ connErr = "nil"
    /\ hist = [connects |-> 0, subscribes |-> 0, closes |-> 0,
               setFirst |-> FALSE, last |-> NoCall,
               sentAtConnect |-> 0, wsErr |-> "nil"]

\* wsService.Subscribe(request): the request is queued.
WsSubscribe(request) ==
    subscriptions' = Append(subscriptions, request)

\* A request queued by Stream.Subscribe goes over the transport at once when
\* the transport is connected, otherwise with the next Connect.
SentAfterSubscribe ==
    IF transport = "connected" THEN Len(subscriptions) + 1 ELSE nsent

\* Connect, first statement: atomic.LoadInt32(&s.publicOnly).
ConnectLoad ==
    /\ cpc = "idle"
    /\ hist.connects < MaxConnects
    /\ loaded' = publicOnly
    /\ cpc' = "login"
    /\ hist' = [hist EXCEPT !.connects = @ + 1,
                            !.last = [NoCall EXCEPT !.op = "Connect"],
                            !.sentAtConnect = nsent,
                            !.wsErr = "nil"]
    /\ UNCHANGED <<publicOnly, subscriptions, nsent, transport, connErr>>
    /\ UNCHANGED <<syncVars, discVars>>

\* Variant of ConnectLogin that queues the login whatever the flag was.
ConnectLoginAlways ==
    /\ cpc = "login"
    /\ WsSubscribe(LoginRequest)
    /\ cpc' = "transport"
    /\ UNCHANGED <<publicOnly, nsent, transport, loaded, connErr, hist>>
    /\ UNCHANGED <<syncVars, discVars>>

\* Connect, the if on the loaded flag: when it was 0 the login request is
\* queued, to be sent when the transport is established.
ConnectLogin ==
    /\ cpc = "login"
    /\ IF loaded = 0
       THEN WsSubscribe(LoginRequest)
       ELSE UNCHANGED subscriptions
    /\ cpc' = "transport"
    /\ UNCHANGED <<publicOnly, nsent, transport, loaded, connErr, hist>>
    /\ UNCHANGED <<syncVars, discVars>>

\* Variant of ConnectTransport that drops the error of the transport.
ConnectTransportSwallowed ==
    /\ cpc = "transport"
    /\ \/ /\ transport' = "connected"
          /\ nsent' = Len(subscriptions)
          /\ hist' = [hist EXCEPT !.wsErr = "nil"]
       \/ \E e \in Errors :
            /\ transport' = "failed"
            /\ nsent' = nsent
            /\ hist' = [hist EXCEPT !.wsErr = e]
    /\ connErr' = "nil"
    /\ cpc' = "idle"
    /\ UNCHANGED <<publicOnly, subscriptions, loaded>>
    /\ UNCHANGED <<syncVars, discVars>>

\* Connect, s.wsService.Connect(ctx): the transport is established and the
\* queued requests not yet sent go over it, or it fails and Connect returns
\* the error.
ConnectTransport ==
    /\ cpc = "transport"
    /\ \/ /\ transport' = "connected"
          /\ nsent' = Len(subscriptions)
          /\ hist' = [hist EXCEPT !.wsErr = "nil"]
          /\ connErr' = "nil"
       \/ \E e \in Errors :
            /\ transport' = "failed"
            /\ nsent' = nsent
            /\ hist' = [hist EXCEPT !.wsErr = e]
            /\ connErr' = e
    /\ cpc' = "idle"
    /\ UNCHANGED <<publicOnly, subscriptions, loaded>>
    /\ UNCHANGED <<syncVars, discVars>>

\* SetPublicOnly: atomic.StoreInt32(&s.publicOnly, 1), from any context.
SetPublicOnly ==
    /\ publicOnly' = 1
    /\ hist' = [hist EXCEPT !.setFirst = @ \/ hist.connects = 0,
                            !.last = [NoCall EXCEPT !.op = "SetPublicOnly"]]
    /\ UNCHANGED <<subscriptions, nsent, transport, cpc, loaded, connErr>>
    /\ UNCHANGED <<syncVars, discVars>>

\* Subscribe(channel, symbol, options)
Subscribe(channel, symbol) ==
    /\ cpc = "idle"
    /\ hist.subscribes < MaxSubscribes
    /\ WsSubscribe(SubscribeRequest(symbol))
    /\ nsent' = SentAfterSubscribe
    /\ hist' = [hist EXCEPT !.subscribes = @ + 1,
                            !.last = [op |-> "Subscribe", channel |-> channel,
                                      symbol |-> symbol, ret |-> "nil"]]
    /\ UNCHANGED <<publicOnly, transport, cpc, loaded, connErr>>
    /\ UNCHANGED <<syncVars, discVars>>

\* Variant of Close that closes the transport whether or not there is one.
CloseAlways ==
    /\ cpc = "idle"
    /\ hist.closes < MaxCloses
    /\ transport' = "closed"
    /\ hist' = [hist EXCEPT !.closes = @ + 1,
                            !.last = [NoCall EXCEPT !.op = "Close"]]
    /\ UNCHANGED <<publicOnly, subscriptions, nsent, cpc, loaded, connErr>>
    /\ UNCHANGED <<syncVars, discVars>>

\* Close: s.wsService is never nil after NewStream; wsService.Close tears
\* the transport down when there is one.
Close ==
    /\ cpc = "idle"
    /\ hist.closes < MaxCloses
    /\ transport' = IF transport = "connected" THEN "closed" ELSE transport
    /\ hist' = [hist EXCEPT !.closes = @ + 1,
                            !.last = [NoCall EXCEPT !.op = "Close"]]
    /\ UNCHANGED <<publicOnly, subscriptions, nsent, cpc, loaded, connErr>>
    /\ UNCHANGED <<syncVars, discVars>>

NextStream ==
    \/ ConnectLoad
    \/ ConnectLogin
    \/ ConnectTransport
    \/ SetPublicOnly
    \/ \E channel \in Channels, symbol \in SubscribeSymbols :
            Subscribe(channel, symbol)
    \/ Close

\* No Stream is in use.
IdleStream == InitStream

----------------------------------------------------------------------------
(* The specifications. *)

\* One run of the sync command.
Init == InitSync /\ IdleDiscover /\ IdleStream
Next == NextSync
Spec == Init /\ [][Next]_vars

\* findPossibleSymbols on every modelled balance sheet and market list.
DiscoverInit == IdleSync /\ InitDiscover /\ IdleStream
DiscoverNext == NextDiscover
DiscoverSpec == DiscoverInit /\ [][DiscoverNext]_vars

\* The calls a caller and a configuring context make on one Stream.
StreamInit == IdleSync /\ IdleDiscover /\ InitStream
StreamNext == NextStream
StreamSpec == StreamInit /\ [][StreamNext]_vars

----------------------------------------------------------------------------
(* Properties of the sync command, checked under Spec. *)

EngineOps == {"SyncTrades", "SyncOrders"}

Calls == 1..Len(calls)

SessionNamed(name) == CHOOSE s \in SessionPool : s.Name = name

\* The sessions a run processes when it is not cut short.
ProcessedSessions ==
    IF NamedMode
    THEN {sessions[i] : i \in {SessionIndex(flags.session)} \ {0}}
    ELSE {sessions[i] : i \in 1..Len(sessions)}

\* The symbol list of a session: the explicit symbol, or the set discovered
\* from the session's own balances and markets.
SymbolList(s) ==
    IF flags.symbol # "" THEN {flags.symbol}
    ELSE symbolMap(s.balances, s.markets)

CountCalls(op, name, symbol) ==
    Cardinality({k \in Calls : /\ calls[k].op = op
                               /\ calls[k].session = name
                               /\ calls[k].requested = symbol})

FinishedOk == pc = "done" /\ result = "nil"

\* C1: abort on first error. A call that returned an error is the last call
\* of the run, the run has returned, and it returned that same error.
C1_AbortOnFirstError ==
    \A k \in Calls :
        calls[k].ret \in Errors =>
            /\ k = Len(calls)
            /\ pc = "done"
            /\ result = calls[k].ret

\* An all-sessions run that failed in its third call or later while a later
\* session was still to be processed.
C1_Witness ==
    /\ ~NamedMode
    /\ pc = "done"
    /\ result \in Errors
    /\ Len(calls) >= 3
    /\ calls[Len(calls)].ret = result
    /\ cur < Len(sessions)

\* C2: exactly once per pair. In a run that ended without error, every
\* processed session has exactly one SyncTrades and one SyncOrders call for
\* each symbol of its symbol list, and no engine call for any other symbol.
C2_ExactlyOncePerPair ==
    FinishedOk =>
        \A s \in ProcessedSessions :
            /\ \A symbol \in SymbolList(s) :
                    /\ CountCalls("SyncTrades", s.Name, symbol) = 1
                    /\ CountCalls("SyncOrders", s.Name, symbol) = 1
            /\ \A k \in Calls :
                    (calls[k].op \in EngineOps /\ calls[k].session = s.Name)
                        => calls[k].requested \in SymbolList(s)

\* C3: trades before orders. Every SyncOrders call directly follows a
\* SyncTrades call that returned no error, for the same session, exchange
\* handle, symbol and start time, the symbol being the effective one; a
\* SyncTrades call that is not the last call returned no error and is
\* followed by its SyncOrders call.
C3_TradesBeforeOrders ==
    \A k \in Calls :
        /\ calls[k].op = "SyncOrders" =>
                /\ k > 1
                /\ calls[k - 1].op = "SyncTrades"
                /\ calls[k - 1].ret = "nil"
                /\ calls[k - 1].session = calls[k].session
                /\ calls[k - 1].exchange = calls[k].exchange
                /\ calls[k - 1].symbol = calls[k].symbol
                /\ calls[k - 1].startTime = calls[k].startTime
        /\ calls[k].op = "SyncTrades" =>
                /\ calls[k].exchange = SessionNamed(calls[k].session).Exchange
                /\ calls[k].symbol =
                      IF SessionNamed(calls[k].session).IsolatedMargin
                      THEN SessionNamed(calls[k].session).IsolatedMarginSymbol
                      ELSE calls[k].requested
                /\ calls[k].ret \in Errors => k = Len(calls)
                /\ k < Len(calls) => calls[k + 1].op = "SyncOrders"

\* A pair was synchronized completely on an isolated-margin session, and a
\* later SyncTrades call failed.
C3_Witness ==
    /\ \E k \in Calls : /\ calls[k].op = "SyncOrders"
                        /\ calls[k].ret = "nil"
                        /\ SessionNamed(calls[k].session).IsolatedMargin
                        /\ calls[k].requested # calls[k].symbol
    /\ Len(calls) > 0
    /\ calls[Len(calls)].op = "SyncTrades"
    /\ calls[Len(calls)].ret \in Errors

\* C4: the isolated-margin override wins. Every engine call made for an
\* isolated-margin session carries the session's isolated-margin symbol.
C4_IsolatedMarginWins ==
    \A k \in Calls :
        (calls[k].op \in EngineOps
            /\ SessionNamed(calls[k].session).IsolatedMargin)
        => calls[k].symbol = SessionNamed(calls[k].session).IsolatedMarginSymbol

\* An isolated-margin session was synchronized with an explicit --symbol
\* other than its override, and the engine was called with the override.
C4_Witness ==
    \E k \in Calls :
        /\ calls[k].op = "SyncOrders"
        /\ calls[k].ret = "nil"
        /\ SessionNamed(calls[k].session).IsolatedMargin
        /\ calls[k].requested = "BTCUSDT"
        /\ flags.symbol = "BTCUSDT"
        /\ calls[k].symbol = "ETHBTC"

\* C5: discovery once per session. In an all-sessions run without an
\* explicit symbol that ended without error, Init was called exactly once
\* for each session, and the symbols the per-symbol loop synchronized for a
\* session are those discovered from that session's balances and markets.
C5_DiscoveryPerSession ==
    (~NamedMode /\ flags.symbol = "" /\ FinishedOk) =>
        \A i \in 1..Len(sessions) :
            /\ Cardinality({k \in Calls : /\ calls[k].op = "Init"
                                          /\ calls[k].session = sessions[i].Name})
                 = 1
            /\ {calls[k].requested :
                    k \in {n \in Calls : /\ calls[n].op \in EngineOps
                                         /\ calls[n].via = "loop"
                                         /\ calls[n].session = sessions[i].Name}}
                 = symbolMap(sessions[i].balances, sessions[i].markets)

\* C7: an explicit symbol skips discovery. With --symbol given, Init is
\* never called, the symbols slice is the one explicit symbol for every
\* session processed, and the per-symbol loop requests only that symbol.
C7_ExplicitSymbolSkipsDiscovery ==
    flags.symbol # "" =>
        /\ \A k \in Calls : calls[k].op # "Init"
        /\ pc \notin {"init"}
        /\ cur > 0 => symbols = <<flags.symbol>>
        /\ \A k \in Calls :
                calls[k].via = "loop" => calls[k].requested = flags.symbol

\* An all-sessions run over two sessions with an explicit symbol ended
\* without error.
C7_Witness ==
    /\ flags.symbol # ""
    /\ ~NamedMode
    /\ Len(sessions) = 2
    /\ cur = 2
    /\ FinishedOk

----------------------------------------------------------------------------
(* Properties of findPossibleSymbols, checked under DiscoverSpec. *)

\* The markets whose quote currency is a listed fiat currency held with a
\* strictly positive total and whose base currency is held with a strictly
\* positive total.
StrictlyHeld(balances, currency) ==
    currency \in DOMAIN balances /\ Total(balances[currency]) > 0

ExpectedSymbols(balances, markets) ==
    {markets[i].Symbol :
        i \in {k \in 1..Len(markets) :
                /\ stringSliceContains(fiatCurrencies, markets[k].QuoteCurrency)
                /\ StrictlyHeld(balances, markets[k].QuoteCurrency)
                /\ StrictlyHeld(balances, markets[k].BaseCurrency)}}

\* C6: findPossibleSymbols returns exactly the symbols of the markets with
\* a held fiat quote and a strictly positive base total, each once.
C6_DiscoverExact ==
    dpc = "done" =>
        /\ {dOut[i] : i \in 1..Len(dOut)} = ExpectedSymbols(dBalances, dMarkets)
        /\ \A a, b \in 1..Len(dOut) : a # b => dOut[a] # dOut[b]

----------------------------------------------------------------------------
(* Properties of the Stream, checked under StreamSpec. *)

Logins == {i \in 1..Len(subscriptions) : subscriptions[i].Operation = "login"}

\* C8: SetPublicOnly before the first Connect. If SetPublicOnly returned
\* before Connect was first called, no login request is ever queued.
C8_PublicOnlyNeverLogsIn ==
    hist.setFirst => Logins = {}

\* A public-only Stream was connected twice, subscribed and closed.
C8_Witness ==
    /\ hist.setFirst
    /\ hist.connects = 2
    /\ hist.subscribes >= 1
    /\ hist.closes >= 1
    /\ cpc = "idle"
    /\ connErr = "nil"

\* C9: exactly one login. When SetPublicOnly was never called, then from
\* the moment the first Connect starts to establish the transport, exactly
\* one login request has been queued.
C9_ExactlyOneLogin ==
    (publicOnly = 0 /\ hist.connects >= 1 /\ cpc \in {"transport", "idle"})
        => Cardinality(Logins) = 1

\* C10: login first. On a Stream that is not public-only, every
\* subscription request sent over the transport has a login request before
\* it in the queue.
C10_LoginBeforeSubscriptions ==
    publicOnly = 0 =>
        \A k \in 1..nsent :
            subscriptions[k].Operation = "subscribe"
                => \E i \in Logins : i < k

LoginsIn(queue) ==
    Cardinality({i \in 1..Len(queue) : queue[i].Operation = "login"})

\* A step in which Stream.Subscribe was called.
SubscribeStep == hist'.subscribes = hist.subscribes + 1

\* A step in which Stream.Close was called.
CloseStep == hist'.closes = hist.closes + 1

\* C11: an unsupported channel is a silent no-op. A Subscribe call with a
\* channel other than the order-book channel leaves the queue unchanged.
C11_UnsupportedChannelNoOp ==
    [][(SubscribeStep /\ hist'.last.channel # BookChannel)
            => subscriptions' = subscriptions]_vars

\* "ltc-usdt" and " Btc-USD " trimmed and upper-cased.
NormalizedMarket(symbol) ==
    CASE symbol = <<"l", "t", "c", "-", "u", "s", "d", "t">>
            -> <<"L", "T", "C", "-", "U", "S", "D", "T">>
      [] symbol = <<" ", "B", "t", "c", "-", "U", "S", "D", " ">>
            -> <<"B", "T", "C", "-", "U", "S", "D">>

\* C12: a Subscribe call with the order-book channel and symbol s appends
\* exactly one request to the queue: operation subscribe, channel
\* orderbook, market s trimmed and upper-cased.
C12_SubscribeEnqueuesOne ==
    [][(SubscribeStep /\ hist'.last.channel = BookChannel)
            => subscriptions' =
                  Append(subscriptions,
                         [Operation |-> "subscribe", Channel |-> "orderbook",
                          Market |-> NormalizedMarket(hist'.last.symbol)])]_vars

\* Subscribe was just called with the order-book channel and " Btc-USD ",
\* and the last queued request is for BTC-USD.
C12_Witness ==
    /\ hist.last.op = "Subscribe"
    /\ hist.last.channel = BookChannel
    /\ hist.last.symbol = <<" ", "B", "t", "c", "-", "U", "S", "D", " ">>
    /\ Len(subscriptions) = 2
    /\ subscriptions[2].Market = <<"B", "T", "C", "-", "U", "S", "D">>

C14_NoLoginOnceSet ==
    [][publicOnly = 1 => LoginsIn(subscriptions') = LoginsIn(subscriptions)]_vars

----------------------------------------------------------------------------
(* Further properties of the sync command, checked under Spec. *)

\* The position in sessions of the session a call was made for.
CallIndex(k) ==
    CHOOSE i \in 1..Len(sessions) : sessions[i].Name = calls[k].session

\* C16: one session at a time, in the environment's order. At most one call
\* is in flight and it is the last one made; in an all-sessions run the
\* calls are ordered by the position of their session, no call is made for
\* a session after the current one, and every session before the current
\* one was processed.
C16_OneSessionAtATime ==
    /\ \A k \in Calls : calls[k].ret = "pending" => k = Len(calls)
    /\ ~NamedMode =>
            /\ \A a, b \in Calls : a < b => CallIndex(a) <= CallIndex(b)
            /\ \A k \in Calls : CallIndex(k) <= cur
            /\ \A i \in 1..(cur - 1) : \E k \in Calls : CallIndex(k) = i

\* An all-sessions run over two sessions ended without error with calls
\* made for both.
C16_Witness ==
    /\ ~NamedMode
    /\ Len(sessions) = 2
    /\ FinishedOk
    /\ \E a, b \in Calls : CallIndex(a) = 1 /\ CallIndex(b) = 2

\* The start time of the run: midnight of the --since date in Asia/Taipei,
\* else three months before now.
ExpectedStartTime ==
    IF flags.since = "2022-01-01"
    THEN [year |-> 2022, month |-> 1, day |-> 1, zone |-> "Asia/Taipei"]
    ELSE [year |-> IF now.month > 3 THEN now.year ELSE now.year - 1,
          month |-> IF now.month > 3 THEN now.month - 3 ELSE now.month + 9,
          day |-> now.day, zone |-> "Local"]

\* C17: one start time. Once a session is being processed the start time
\* is the one resolved from --since or from now, and every SyncTrades and
\* SyncOrders call carries it.
C17_OneStartTime ==
    /\ cur > 0 => startTime = ExpectedStartTime
    /\ \A k \in Calls :
            calls[k].op \in EngineOps => calls[k].startTime = ExpectedStartTime

\* An all-sessions run over two sessions without --since, started in
\* February, ended without error.
C17_Witness ==
    /\ flags.since = ""
    /\ now.month <= 3
    /\ ~NamedMode
    /\ Len(sessions) = 2
    /\ FinishedOk
    /\ \E a, b \in Calls : /\ CallIndex(a) = 1 /\ calls[a].op = "SyncTrades"
                           /\ CallIndex(b) = 2 /\ calls[b].op = "SyncOrders"

\* What a call is, apart from its outcome.
Shape(k) == <<calls[k].op, calls[k].session, calls[k].symbol>>

\* The calls of a named-session run for session s whose symbol list is
\* syms: Init when no symbol was given, then SyncTrades and SyncOrders for
\* each symbol in turn.
NamedRunShape(s, syms) ==
    LET head == IF flags.symbol = "" THEN <<<<"Init", s.Name, "">>>> ELSE << >>
        pairs == [n \in 1..(2 * Len(syms)) |->
                    << IF n % 2 = 1 THEN "SyncTrades" ELSE "SyncOrders",
                       s.Name,
                       IF s.IsolatedMargin THEN s.IsolatedMarginSymbol
                       ELSE syms[(n + 1) \div 2] >>]
    IN  head \o pairs

\* A named-session run that ended without error made the calls of
\* NamedRunShape.
NamedRunHasShape ==
    (NamedMode /\ FinishedOk) =>
        [k \in Calls |-> Shape(k)] = NamedRunShape(sessions[cur], symbols)

\* C18: an all-sessions run over an environment with one session makes the
\* same calls, in the same order, as the named-session run for it.
C18_SingleSessionAsNamed ==
    (~NamedMode /\ Len(sessions) = 1 /\ FinishedOk) =>
        [k \in Calls |-> Shape(k)] = NamedRunShape(sessions[1], symbols)

\* C19: no engine call with an empty symbol for a session that is not
\* isolated-margin, and no engine call at all for such a session when no
\* symbol was given and its discovery is empty.
C19_NoEmptySymbol ==
    \A k \in Calls :
        (calls[k].op \in EngineOps
            /\ ~SessionNamed(calls[k].session).IsolatedMargin)
        => /\ calls[k].symbol # ""
           /\ flags.symbol = "" =>
                symbolMap(SessionNamed(calls[k].session).balances,
                          SessionNamed(calls[k].session).markets) # {}

\* The --session name is one of the configured sessions.
Configured == \E i \in 1..Len(sessions) : sessions[i].Name = flags.session

====
